---- MODULE Spec2Model ----
(***************************************************************************)
(* Climate Load Analysis System (smd-simulation).                          *)
(*                                                                         *)
(* The model follows the source:                                           *)
(*   src/src/utils/dataProcessing.ts   DataProcessor (ingestion, daily     *)
(*                                     aggregation, climate resolver)      *)
(*   src/unnamed/part_002              ClimateCalculations (physics)       *)
(*   src/src/App.tsx                   App state, handleFileSelect,        *)
(*                                     handleConfigChange                  *)
(*   src/unnamed/part_000              FileUpload (drop zone, file input)  *)
(*   src/unnamed/part_001              ConfigurationPanel                  *)
(*                                                                         *)
(* Numbers.  JavaScript numbers are modelled in fixed point:               *)
(*   latitude, longitude   rationals [n, d] in units of 0.01 degree        *)
(*   temperature           tenths of a degree                              *)
(*   solarRadiation        W/m2, humidity percent (whole numbers)          *)
(*   uvIndex               hundredths                                      *)
(*   surfaceTemperature, agingRate   [w, m] = w + m/1000 (Fix)             *)
(*   emc, cumulativeUV     thousandths                                     *)
(* Quotients are truncated to the unit of their result.  Math.random() is  *)
(* a draw in tenths, 0..9.                                                 *)
(***************************************************************************)
EXTENDS Integers, Sequences, FiniteSets, TLC

(***************************************************************************)
(* Arithmetic helpers                                                      *)
(***************************************************************************)
Abs(x) == IF x < 0 THEN -x ELSE x

Min2(a, b) == IF a <= b THEN a ELSE b

Max2(a, b) == IF a >= b THEN a ELSE b

RECURSIVE GCD(_, _)
GCD(a, b) == IF b = 0 THEN a ELSE GCD(b, a % b)

\* A rational n/d in lowest terms with d > 0.
Rat(n, d) ==
  LET g == GCD(Abs(n), d)
  IN  [n |-> n \div g, d |-> d \div g]

RatInt(i) == [n |-> i, d |-> 1]

RatAdd(a, b) == Rat(a.n * b.d + b.n * a.d, a.d * b.d)

RatSub(a, b) == Rat(a.n * b.d - b.n * a.d, a.d * b.d)

RatMul(a, b) == Rat(a.n * b.n, a.d * b.d)

RatDivInt(a, k) == Rat(a.n, a.d * k)

RatLess(a, b) == a.n * b.d < b.n * a.d

RatLeq(a, b) == a.n * b.d <= b.n * a.d

RECURSIVE RatSum(_)
RatSum(s) == IF s = <<>> THEN RatInt(0) ELSE RatAdd(Head(s), RatSum(Tail(s)))

\* The sequence f(s[1]), ..., f(s[n]) (Array.prototype.map).
Map(f(_), s) == [i \in 1..Len(s) |-> f(s[i])]

RECURSIVE SeqMin(_)
SeqMin(s) == IF Len(s) = 1 THEN s[1] ELSE Min2(s[1], SeqMin(Tail(s)))

RECURSIVE SeqMax(_)
SeqMax(s) == IF Len(s) = 1 THEN s[1] ELSE Max2(s[1], SeqMax(Tail(s)))

RECURSIVE Concat(_)
Concat(ss) == IF ss = <<>> THEN <<>> ELSE Head(ss) \o Concat(Tail(ss))

\* Long division, one decimal digit at a time so that no intermediate
\* exceeds 10 * den: from quotient q and remainder r of num / den to those of
\* num * 10^digits / den.
RECURSIVE LongDivStep(_, _, _, _)
LongDivStep(q, r, den, digits) ==
  IF digits = 0 THEN [q |-> q, r |-> r]
  ELSE LongDivStep(q * 10 + (r * 10) \div den, (r * 10) % den, den, digits - 1)

\* [q, r] with q = floor(num * 10^digits / den), for num >= 0 and den > 0.
LongDiv(num, den, digits) == LongDivStep(num \div den, num % den, den, digits)

(***************************************************************************)
(* Calendar and timestamps (date-fns parseISO / format)                    *)
(*                                                                         *)
(* A timestamp is [text, day, hour, utc]: text is "iso" for an ISO-8601     *)
(* string, "" for a missing or empty one, "garbage" for text parseISO       *)
(* cannot read; day is the calendar day (an index of Calendar), hour the    *)
(* hour of the day, and utc whether the string carries the UTC designator Z *)
(* (TRUE) or no offset, which parseISO reads as host local time.            *)
(* tz is the host's offset from UTC in hours.                               *)
(***************************************************************************)
Calendar == <<20240130, 20240131, 20240201, 20240202, 20240203>>

DayIndexes == 1..Len(Calendar)

\* The days samples may carry: one day of margin on either side, so that a
\* date shifted by the host offset is still on the calendar.
SampleDays == 2..(Len(Calendar) - 1)

\* parseISO: the instant, in hours since the start of calendar day 0, UTC.
parseISO(ts, tz) ==
  IF ts.utc THEN ts.day * 24 + ts.hour ELSE ts.day * 24 + ts.hour - tz

\* format(instant, 'yyyy-MM-dd') and format(instant, 'yyyyMMdd'): the host's
\* local calendar date of the instant; both patterns name the same date, and
\* it is held as the number YYYYMMDD.
formatDate(instant, tz) == Calendar[(instant + tz) \div 24]

\* The day index of a formatted date (reading back the 'yyyy-MM-dd' text).
DayOfDate(ymd) == CHOOSE i \in DayIndexes : Calendar[i] = ymd

\* date + 'T12:00:00Z'
noonZ(ymd) == [text |-> "iso", day |-> DayOfDate(ymd), hour |-> 12, utc |-> TRUE]

(***************************************************************************)
(* DataProcessor: daily aggregation                                        *)
(*                                                                         *)
(* A GPSPoint is [timestamp, latitude, longitude].                         *)
(***************************************************************************)
\* format(parseISO(point.timestamp), ...): the date the code files a point
\* under.
dateOf(point, tz) == formatDate(parseISO(point.timestamp, tz), tz)

\* The keys of dailyGroups in insertion order: each date at its first
\* appearance in the input.
RECURSIVE dailyKeys(_, _, _)
dailyKeys(gpsPoints, tz, keys) ==
  IF gpsPoints = <<>> THEN keys
  ELSE LET date == dateOf(Head(gpsPoints), tz)
       IN  dailyKeys(Tail(gpsPoints), tz,
                     IF \E i \in 1..Len(keys) : keys[i] = date
                     THEN keys ELSE Append(keys, date))

\* points.reduce((sum, p) => sum + p.latitude, 0) / points.length, and the
\* same for the longitude.
meanOf(points) ==
  [latitude  |-> RatDivInt(RatSum([i \in 1..Len(points) |-> points[i].latitude]),
                           Len(points)),
   longitude |-> RatDivInt(RatSum([i \in 1..Len(points) |-> points[i].longitude]),
                           Len(points))]

aggregateByDay(gpsPoints, tz) ==
  LET keys == dailyKeys(gpsPoints, tz, <<>>)
      entry(date) ==
        LET points == SelectSeq(gpsPoints, LAMBDA p : dateOf(p, tz) = date)
            avg    == meanOf(points)
        IN  [timestamp |-> noonZ(date),
             latitude  |-> avg.latitude,
             longitude |-> avg.longitude]
  IN  [i \in 1..Len(keys) |-> entry(keys[i])]

(***************************************************************************)
(* DataProcessor: proximity grouping                                       *)
(***************************************************************************)
\* The threshold fetchClimateData passes: 0.1 degree, in units of 0.01.
ProximityThreshold == 10

\* Math.sqrt(dLat^2 + dLon^2), held as its square (a rational): the code
\* only compares the distance with the threshold, and both are >= 0.
calculateDistanceSq(lat1, lon1, lat2, lon2) ==
  LET dLat == RatSub(lat2, lat1)
      dLon == RatSub(lon2, lon1)
  IN  RatAdd(RatMul(dLat, dLat), RatMul(dLon, dLon))

\* withinThreshold with the threshold itself counted as near:
\* distance <= threshold.
withinThresholdInclusive(p, q, threshold) ==
  RatLeq(calculateDistanceSq(p.latitude, p.longitude, q.latitude, q.longitude),
         RatInt(threshold * threshold))

\* distance < threshold
withinThreshold(p, q, threshold) ==
  RatLess(calculateDistanceSq(p.latitude, p.longitude, q.latitude, q.longitude),
          RatInt(threshold * threshold))

\* seedGroup without the processed test: a later point joins although an
\* earlier group already holds it.
seedGroupUnmarked(points, threshold, i, processed) ==
  <<i>> \o SelectSeq([k \in 1..(Len(points) - i) |-> i + k],
                     LAMBDA j : withinThreshold(points[i], points[j], threshold))

\* The group opened by seed i: i itself, then every later index not yet
\* processed whose point is within the threshold of points[i].
seedGroup(points, threshold, i, processed) ==
  <<i>> \o SelectSeq([k \in 1..(Len(points) - i) |-> i + k],
                     LAMBDA j : j \notin processed
                                /\ withinThreshold(points[i], points[j], threshold))

RECURSIVE groupIndexesFrom(_, _, _, _, _)
groupIndexesFrom(points, threshold, i, processed, groups) ==
  IF i > Len(points) THEN groups
  ELSE IF i \in processed
       THEN groupIndexesFrom(points, threshold, i + 1, processed, groups)
       ELSE LET group == seedGroup(points, threshold, i, processed)
            IN  groupIndexesFrom(points, threshold, i + 1,
                                 processed \cup {group[k] : k \in 1..Len(group)},
                                 Append(groups, group))

\* The groups as sequences of indexes into points.
groupIndexesByProximity(points, threshold) ==
  groupIndexesFrom(points, threshold, 1, {}, <<>>)

groupPointsByProximity(points, threshold) ==
  LET groups == groupIndexesByProximity(points, threshold)
  IN  [g \in 1..Len(groups) |-> [k \in 1..Len(groups[g]) |-> points[groups[g][k]]]]

calculateCenterPoint(points) == meanOf(points)

(***************************************************************************)
(* DataProcessor: the provider call                                        *)
(*                                                                         *)
(* A provider response is                                                  *)
(*   [fetched, ok, json, properties, parameter, data]                      *)
(* fetched: fetch() resolved (FALSE: it rejected, a network error);        *)
(* ok: response.ok; json: response.json() parsed the body; properties and  *)
(* parameter: the body has data.properties and data.properties.parameter; *)
(* data: the parameter object, a record of per-parameter maps from date    *)
(* key to number.  A parameter missing from the object is the empty map.   *)
(***************************************************************************)
\* value.toFixed(4) of a coordinate: rounded to 4 decimal places, in units of
\* 0.0001 degree.
toFixed4(r) == (2 * 100 * r.n + r.d) \div (2 * r.d)

\* requestOf made for the group's first member alone: its place and its
\* date as both ends of the range.
requestOfFirst(group, zone) ==
  [latitude  |-> toFixed4(group[1].latitude),
   longitude |-> toFixed4(group[1].longitude),
   start     |-> dateOf(group[1], zone),
   end       |-> dateOf(group[1], zone)]

\* The request callNASAPowerAPI sends for a group.
requestOf(group, tz) ==
  LET centerPoint == calculateCenterPoint(group)
      dates       == [i \in 1..Len(group) |-> dateOf(group[i], tz)]
      startDate   == SeqMin(dates)
      endDate     == SeqMax(dates)
  IN  [latitude  |-> toFixed4(centerPoint.latitude),
       longitude |-> toFixed4(centerPoint.longitude),
       start     |-> startDate,
       end       |-> endDate]

\* callNASAPowerAPI after the request is sent: [thrown, data].
callNASAPowerAPI(response) ==
  IF ~response.fetched THEN [thrown |-> TRUE, data |-> <<>>]
  ELSE IF ~response.ok THEN [thrown |-> TRUE, data |-> <<>>]
  ELSE IF ~response.json THEN [thrown |-> TRUE, data |-> <<>>]
  ELSE IF ~response.properties \/ ~response.parameter
       THEN [thrown |-> TRUE, data |-> <<>>]
  ELSE [thrown |-> FALSE, data |-> response.data]

\* m[key] !== undefined
present(m, key) == key \in DOMAIN m

\* m?.[key] || fallback: the fallback replaces every falsy value.
orElse(m, key, fallback) ==
  IF present(m, key) /\ m[key] # 0 THEN m[key] ELSE fallback

\* Math.min(11, Math.max(0, (uva + uvb) / 25)), in hundredths.
calculateUVIndex(uva, uvb) == Min2(1100, Max2(0, 4 * (uva + uvb)))

\* recordOf with the T2M test lost: a point with no T2M value under its date
\* key gets a record with the default temperature 0.
recordOfDefaulted(point, dayData, zone) ==
  LET dateKey == dateOf(point, zone)
      t2m     == IF present(dayData.T2M, dateKey) THEN dayData.T2M[dateKey] ELSE 0
  IN  << [date           |-> dateOf(point, zone),
          latitude       |-> point.latitude,
          longitude      |-> point.longitude,
          temperature    |-> t2m,
          maxTemperature |-> orElse(dayData.T2M_MAX, dateKey, t2m + 50),
          solarRadiation |-> orElse(dayData.ALLSKY_SFC_SW_DWN, dateKey, 200),
          humidity       |-> orElse(dayData.RH2M, dateKey, 50),
          uvIndex        |-> calculateUVIndex(
                               orElse(dayData.ALLSKY_SFC_UVA, dateKey, 0),
                               orElse(dayData.ALLSKY_SFC_UVB, dateKey, 0))] >>

\* recordOf falling back to a synthetic record: a point with no T2M value
\* under its date key gets a record of placeholder values.
recordOfSynthetic(point, dayData, zone) ==
  LET dateKey == dateOf(point, zone)
  IN  IF present(dayData.T2M, dateKey) THEN recordOfDefaulted(point, dayData, zone)
      ELSE << [date           |-> dateOf(point, zone),
               latitude       |-> point.latitude,
               longitude      |-> point.longitude,
               temperature    |-> 300,
               maxTemperature |-> 370,
               solarRadiation |-> 260,
               humidity       |-> 50,
               uvIndex        |-> 500] >>

\* The record of one point on a successful response: <<>> when the point has
\* no T2M value under its own date key, else the one record.
recordOf(point, dayData, tz) ==
  LET dateKey == dateOf(point, tz)
  IN  IF present(dayData.T2M, dateKey)
      THEN << [date           |-> dateOf(point, tz),
               latitude       |-> point.latitude,
               longitude      |-> point.longitude,
               temperature    |-> dayData.T2M[dateKey],
               maxTemperature |-> orElse(dayData.T2M_MAX, dateKey,
                                         dayData.T2M[dateKey] + 50),
               solarRadiation |-> orElse(dayData.ALLSKY_SFC_SW_DWN, dateKey, 200),
               humidity       |-> orElse(dayData.RH2M, dateKey, 50),
               uvIndex        |-> calculateUVIndex(
                                    orElse(dayData.ALLSKY_SFC_UVA, dateKey, 0),
                                    orElse(dayData.ALLSKY_SFC_UVB, dateKey, 0))] >>
      ELSE <<>>

\* for (const point of group) { ... results.push(...) }
mapGroup(group, dayData, tz) ==
  Concat([i \in 1..Len(group) |-> recordOf(group[i], dayData, tz)])

\* generateMockClimateData; u holds the five Math.random() draws, in tenths.
generateMockClimateData(point, u, tz) ==
  [date           |-> dateOf(point, tz),
   latitude       |-> point.latitude,
   longitude      |-> point.longitude,
   temperature    |-> 200 + u[1] * 25,
   maxTemperature |-> 250 + u[2] * 30,
   solarRadiation |-> 100 + u[3] * 40,
   humidity       |-> 30 + u[4] * 5,
   uvIndex        |-> 100 + u[5] * 100]

\* The catch branch: one mock record per member; draws[i] are point i's.
mockGroup(group, draws, tz) ==
  [i \in 1..Len(group) |-> generateMockClimateData(group[i], draws[i], tz)]

(***************************************************************************)
(* ClimateCalculations                                                     *)
(*                                                                         *)
(* SurfaceProperties is [materialType, albedo, emissivity], albedo and     *)
(* emissivity in hundredths, emissivity > 0.                               *)
(***************************************************************************)
\* w + m/1000 with 0 <= m < 1000.
Fix(w, m) == [w |-> w + m \div 1000, m |-> m % 1000]

\* x > c for a whole number c.
FixGT(x, c) == x.w > c \/ (x.w = c /\ x.m > 0)

\* Math.max(c, x) for a whole number c.
FixMax(c, x) == IF x.w < c THEN Fix(c, 0) ELSE x

\* sigma = 5.67e-8, as 567e-10.
Sigma567 == 567

\* calculateSurfaceTemperature taking all of the radiation as absorbed: the
\* albedo is left out.
calculateSurfaceTemperatureNoAlbedo(airTemp, solarRadiation, properties) ==
  LET absorbed == solarRadiation * 100
      divisor  == properties.emissivity * Sigma567 * 20
      whole    == LongDiv(absorbed, divisor, 9)
      frac     == LongDivStep(0, whole.r, divisor, 3)
  IN  Fix(airTemp \div 10 + whole.q, (airTemp % 10) * 100 + frac.q)

calculateSurfaceTemperature(airTemp, solarRadiation, properties) ==
  LET \* absorgedRadiation, in hundredths of a W/m2
      absorbed == solarRadiation * (100 - properties.albedo)
      \* emissivity * sigma * 20, in units of 1e-12
      divisor  == properties.emissivity * Sigma567 * 20
      \* radiationEffect * 0.1 = absorbed * 1e9 / divisor
      whole    == LongDiv(absorbed, divisor, 9)
      frac     == LongDivStep(0, whole.r, divisor, 3)
  IN  Fix(airTemp \div 10 + whole.q, (airTemp % 10) * 100 + frac.q)

\* calculateEMC without the cap of the humidity at 95.
calculateEMCUncapped(temperature, humidity) ==
  LET rh         == humidity
      num        == 33000000 + 45200 * rh + 415 * rh * rh
      den        == 10000000 + 127000 * rh + 1350 * rh * rh
      average    == LongDiv(num, den, 3).q
      tempFactor == 1000 + (temperature - 200) * 2
      peak       == (average * tempFactor) \div 1000
  IN  [average |-> Max2(0, average), peak |-> Max2(0, peak)]

\* [average, peak] in thousandths.
calculateEMC(temperature, humidity) ==
  LET rh         == Min2(humidity, 95)
      \* numerator and denominator of Kay's formula, times 1e5
      num        == 33000000 + 45200 * rh + 415 * rh * rh
      den        == 10000000 + 127000 * rh + 1350 * rh * rh
      average    == LongDiv(num, den, 3).q
      \* tempFactor = 1 + (temperature - 20) * 0.02, in thousandths
      tempFactor == 1000 + (temperature - 200) * 2
      peak       == (average * tempFactor) \div 1000
  IN  [average |-> Max2(0, average), peak |-> Max2(0, peak)]

\* uvIndex * hours * 0.1, in thousandths.
calculateCumulativeUV(uvIndex, hours) == uvIndex * hours

\* assessRisks with the class limits included: 40 is already Medium and 60
\* already High.
assessRisksInclusive(surfaceTemp, emcAverage, emcPeak, cumulativeUV) ==
  LET crackingRisk   == IF surfaceTemp.w >= 60 THEN "High"
                        ELSE IF surfaceTemp.w >= 40 THEN "Medium"
                        ELSE "Low"
      emcVariation   == Abs(emcPeak - emcAverage)
      moistureStress == IF emcVariation > 5000 THEN "High"
                        ELSE IF emcVariation > 3000 THEN "Medium"
                        ELSE "Low"
      over           == surfaceTemp.w - 20
      agingRate      == Fix(1 + over \div 20,
                            cumulativeUV \div 100
                              + ((over % 20) * 1000 + surfaceTemp.m) \div 20)
  IN  [crackingRisk   |-> crackingRisk,
       agingRate      |-> FixMax(1, agingRate),
       moistureStress |-> moistureStress]

\* assessRisks without the floor of 1 on the aging rate.
assessRisksUnfloored(surfaceTemp, emcAverage, emcPeak, cumulativeUV) ==
  LET crackingRisk   == IF FixGT(surfaceTemp, 60) THEN "High"
                        ELSE IF FixGT(surfaceTemp, 40) THEN "Medium"
                        ELSE "Low"
      emcVariation   == Abs(emcPeak - emcAverage)
      moistureStress == IF emcVariation > 5000 THEN "High"
                        ELSE IF emcVariation > 3000 THEN "Medium"
                        ELSE "Low"
      over           == surfaceTemp.w - 20
      agingRate      == Fix(1 + over \div 20,
                            cumulativeUV \div 100
                              + ((over % 20) * 1000 + surfaceTemp.m) \div 20)
  IN  [crackingRisk   |-> crackingRisk,
       agingRate      |-> agingRate,
       moistureStress |-> moistureStress]

assessRisks(surfaceTemp, emcAverage, emcPeak, cumulativeUV) ==
  LET crackingRisk   == IF FixGT(surfaceTemp, 60) THEN "High"
                        ELSE IF FixGT(surfaceTemp, 40) THEN "Medium"
                        ELSE "Low"
      emcVariation   == Abs(emcPeak - emcAverage)
      moistureStress == IF emcVariation > 5000 THEN "High"
                        ELSE IF emcVariation > 3000 THEN "Medium"
                        ELSE "Low"
      \* 1 + cumulativeUV / 100 + (surfaceTemp - 20) * 0.05
      over           == surfaceTemp.w - 20
      agingRate      == Fix(1 + over \div 20,
                            cumulativeUV \div 100
                              + ((over % 20) * 1000 + surfaceTemp.m) \div 20)
  IN  [crackingRisk   |-> crackingRisk,
       agingRate      |-> FixMax(1, agingRate),
       moistureStress |-> moistureStress]

\* One AnalysisResult from one ClimateData record.
analyse(data, surfaceProperties) ==
  LET surfaceTemperature ==
        calculateSurfaceTemperature(data.temperature, data.solarRadiation,
                                    surfaceProperties)
      emc          == calculateEMC(data.temperature, data.humidity)
      cumulativeUV == calculateCumulativeUV(data.uvIndex, 24)
      riskAssessment ==
        assessRisks(surfaceTemperature, emc.average, emc.peak, cumulativeUV)
  IN  [date               |-> data.date,
       latitude           |-> data.latitude,
       longitude          |-> data.longitude,
       surfaceTemperature |-> surfaceTemperature,
       emcAverage         |-> emc.average,
       emcPeak            |-> emc.peak,
       cumulativeUV       |-> cumulativeUV,
       riskAssessment     |-> riskAssessment,
       rawClimateData     |-> data]

\* processClimateData keeping a running total: each result's cumulativeUV
\* adds up the exposure of the records before it.
processClimateDataRunning(climateData, surfaceProperties) ==
  LET total[k \in 0..Len(climateData)] ==
        IF k = 0 THEN 0
        ELSE total[k - 1] + calculateCumulativeUV(climateData[k].uvIndex, 24)
  IN  [i \in 1..Len(climateData) |->
         [analyse(climateData[i], surfaceProperties)
            EXCEPT !.cumulativeUV = total[i]]]

processClimateData(climateData, surfaceProperties) ==
  [i \in 1..Len(climateData) |-> analyse(climateData[i], surfaceProperties)]

(***************************************************************************)
(* DataProcessor: ingestion                                                *)
(*                                                                         *)
(* A file is [name, body, rows]: name is the extension the file name ends  *)
(* with ("csv", "json" or "other"); body is "malformed" (Papa.parse        *)
(* reports an error, JSON.parse throws), "not_array" (JSON that is no      *)
(* array) or "rows", and rows are the rows mapped to [timestamp,           *)
(* latitude, longitude].  NaN is the rational with denominator 0.          *)
(***************************************************************************)
NaN == [n |-> 0, d |-> 0]

isNaN(r) == r.d = 0

\* !isNaN(point.latitude) && !isNaN(point.longitude) && point.timestamp
validRow(row) ==
  /\ ~isNaN(row.latitude)
  /\ ~isNaN(row.longitude)
  /\ row.timestamp.text # ""

\* parseGPSData and parseGPSDataFromJSON: [rejected, gpsPoints].
parseGPSData(file) ==
  IF file.body = "malformed" THEN [rejected |-> TRUE, gpsPoints |-> <<>>]
  ELSE [rejected |-> FALSE, gpsPoints |-> SelectSeq(file.rows, validRow)]

parseGPSDataFromJSON(file) ==
  IF file.body = "malformed" THEN [rejected |-> TRUE, gpsPoints |-> <<>>]
  ELSE IF file.body = "not_array" THEN [rejected |-> TRUE, gpsPoints |-> <<>>]
  ELSE [rejected |-> FALSE, gpsPoints |-> SelectSeq(file.rows, validRow)]

\* format() throws a RangeError on the Invalid Date parseISO returns.
aggregateThrows(gpsPoints) ==
  \E i \in 1..Len(gpsPoints) : gpsPoints[i].timestamp.text # "iso"

(***************************************************************************)
(* Bounds and input sets                                                   *)
(***************************************************************************)
\* File-upload runs started in one behaviour of the application.
MaxRuns == 2

\* Rows of a generated route file.
MaxSamples == 3

\* The step of the clock, in ms.
TickMs == 100

\* setTimeout(resolve, 100) in fetchClimateData.
RateLimitDelay == 100

\* Host offsets from UTC, in hours: the extremes and UTC itself.
TZOffsets == {-12, 0, 13}

\* Three places, in units of 0.01 degree: the first two are exactly 0.1
\* degree apart, the third is nearer than that to both.
Coords == { <<1000, 2000>>, <<1006, 2008>>, <<1004, 2000>> }

isoLocal(day, hour) == [text |-> "iso", day |-> day, hour |-> hour, utc |-> FALSE]

sample(day, c) ==
  [timestamp |-> isoLocal(day, 12),
   latitude  |-> RatInt(c[1]),
   longitude |-> RatInt(c[2])]

RouteRows == { sample(day, c) : day \in SampleDays, c \in Coords }

\* Route logs are in time order.
chronological(rows) ==
  \A i \in 1..Len(rows) : \A j \in i..Len(rows) :
    rows[i].timestamp.day <= rows[j].timestamp.day

RouteFiles ==
  { [name |-> "csv", body |-> "rows", rows |-> rows] :
      rows \in { r \in UNION { [1..n -> RouteRows] : n \in 1..MaxSamples } :
                   chronological(r) } }

\* Files that fail ingestion, one of each kind.
BadFiles ==
  { [name |-> "other", body |-> "rows", rows |-> <<sample(2, <<1000, 2000>>)>>],
    [name |-> "csv",   body |-> "malformed", rows |-> <<>>],
    [name |-> "json",  body |-> "not_array", rows |-> <<>>],
    [name |-> "json",  body |-> "rows", rows |->
       << [timestamp |-> [isoLocal(2, 12) EXCEPT !.text = ""],
           latitude |-> RatInt(1000), longitude |-> RatInt(2000)],
          [timestamp |-> isoLocal(2, 12),
           latitude |-> NaN, longitude |-> RatInt(2000)] >>],
    [name |-> "csv",   body |-> "rows", rows |->
       << [timestamp |-> [isoLocal(2, 12) EXCEPT !.text = "garbage"],
           latitude |-> RatInt(1000), longitude |-> RatInt(2000)] >>] }

\* A sample whose timestamp carries the UTC designator Z.
utcSample(day, hour, c) ==
  [timestamp |-> [text |-> "iso", day |-> day, hour |-> hour, utc |-> TRUE],
   latitude  |-> RatInt(c[1]),
   longitude |-> RatInt(c[2])]

\* Samples of one UTC day, early and late in the day, at two places.
ClockRows ==
  { utcSample(3, hour, c) : hour \in {5, 20}, c \in {<<1000, 2000>>, <<1004, 2000>>} }

\* Logs of one or two such samples.
ClockFiles ==
  { [name |-> "csv", body |-> "rows", rows |-> rows] :
      rows \in UNION { [1..n -> ClockRows] : n \in 1..2 } }

\* Three samples of one day at (10, 20), (10.01, 20.01) and (10.02, 20.02).
ScenarioFile ==
  [name |-> "csv", body |-> "rows",
   rows |-> << sample(3, <<1000, 2000>>), sample(3, <<1001, 2001>>),
               sample(3, <<1002, 2002>>) >>]

\* Two samples, a day and exactly 0.1 degree apart: two groups.
TwoPlaceFile ==
  [name |-> "csv", body |-> "rows",
   rows |-> << sample(2, <<1000, 2000>>), sample(3, <<1006, 2008>>) >>]

\* The files of the application specification: one with an unsupported
\* name, one the parser rejects, and two one-day routes at different places.
AppFiles ==
  { [name |-> "other", body |-> "rows", rows |-> <<sample(2, <<1000, 2000>>)>>],
    [name |-> "csv",   body |-> "malformed", rows |-> <<>>],
    [name |-> "csv",   body |-> "rows",
     rows |-> <<sample(2, <<1000, 2000>>), sample(2, <<1004, 2000>>)>>],
    [name |-> "json",  body |-> "rows",
     rows |-> <<sample(3, <<1006, 2008>>)>>] }

\* The files of the termination specification: those that fail ingestion,
\* the routes of one sample and a two-group route.
FairFiles ==
  BadFiles \cup {TwoPlaceFile}
    \cup { [name |-> "csv", body |-> "rows", rows |-> <<row>>] : row \in RouteRows }

\* Surface temperatures assessRisks is called with: below zero, around the
\* reference 20, and at and on either side of the class limits 40 and 60.
SurfaceTemps ==
  { Fix(-30, 0), Fix(19, 999), Fix(20, 0), Fix(39, 999), Fix(40, 0), Fix(40, 1),
    Fix(59, 999), Fix(60, 0), Fix(60, 1), Fix(100, 0) }

\* EMC averages and peaks, in thousandths.
EMCValues == {0, 1655, 5000, 7000}

\* Cumulative UV exposures, in thousandths: negative, none, uvIndex 1 and
\* uvIndex 11 over 24 hours.
CumulativeUVs == {-5000, 0, 2400, 26400}

\* Air temperatures, in tenths of a degree.
Temperatures == {-100, 200, 450}

\* Relative humidities, in percent: every whole value, and some above 100.
Humidities == 0..100 \cup {120, 200}

\* The material presets of ConfigurationPanel the model selects among.
Materials ==
  { [materialType |-> "wood",  albedo |-> 25, emissivity |-> 90],
    [materialType |-> "metal", albedo |-> 60, emissivity |-> 20] }

Configs ==
  [surfaceProperties : Materials, aggregationLevel : {"daily", "weekly"}]

\* useState's initial config (startDate and endDate, which nothing reads,
\* are left out).
InitialConfig ==
  [surfaceProperties |-> [materialType |-> "wood", albedo |-> 25,
                          emissivity |-> 90],
   aggregationLevel  |-> "daily"]

\* Math.random() draws of one mock record, in tenths.
DrawTuples(rich) ==
  IF rich THEN { <<0, 0, 0, 0, 0>>, <<9, 9, 9, 9, 9>> } ELSE { <<4, 4, 4, 4, 4>> }

\* The date keys of a request's range.
rangeKeys(request) ==
  { Calendar[i] : i \in { j \in DayIndexes :
                            request.start <= Calendar[j] /\ Calendar[j] <= request.end } }

\* A parameter map: the value v(key) under each of the keys.
paramMap(keys, v(_)) == [key \in keys |-> v(key)]

\* The parameter object of a response that holds T2M under the keys t2mKeys
\* and the other parameters as secondary says: under the same keys ("full"),
\* under the same keys with value 0 ("zero"), or not at all ("none").
dayDataOf(t2mKeys, secondary) ==
  LET sec(v) == IF secondary = "full" THEN paramMap(t2mKeys, LAMBDA key : v)
                ELSE IF secondary = "zero" THEN paramMap(t2mKeys, LAMBDA key : 0)
                ELSE paramMap({}, LAMBDA key : 0)
  IN  [T2M               |-> paramMap(t2mKeys, LAMBDA key : 247 + DayOfDate(key)),
       T2M_MAX           |-> sec(310),
       ALLSKY_SFC_SW_DWN |-> sec(300),
       RH2M              |-> sec(60),
       ALLSKY_SFC_UVA    |-> sec(100),
       ALLSKY_SFC_UVB    |-> sec(10)]

NoData == dayDataOf({}, "none")

FailureResponses ==
  { [fetched |-> FALSE, ok |-> FALSE, json |-> FALSE, properties |-> FALSE,
     parameter |-> FALSE, data |-> NoData],
    [fetched |-> TRUE, ok |-> FALSE, json |-> TRUE, properties |-> TRUE,
     parameter |-> TRUE, data |-> NoData],
    [fetched |-> TRUE, ok |-> TRUE, json |-> FALSE, properties |-> FALSE,
     parameter |-> FALSE, data |-> NoData],
    [fetched |-> TRUE, ok |-> TRUE, json |-> TRUE, properties |-> FALSE,
     parameter |-> FALSE, data |-> NoData],
    [fetched |-> TRUE, ok |-> TRUE, json |-> TRUE, properties |-> TRUE,
     parameter |-> FALSE, data |-> NoData] }

DataResponses(request, rich) ==
  { [fetched |-> TRUE, ok |-> TRUE, json |-> TRUE, properties |-> TRUE,
     parameter |-> TRUE, data |-> dayDataOf(keys, secondary)] :
      keys \in (IF rich THEN SUBSET rangeKeys(request) ELSE {rangeKeys(request)}),
      secondary \in (IF rich THEN {"full", "zero", "none"} ELSE {"full"}) }

Responses(request, rich) == FailureResponses \cup DataResponses(request, rich)

(***************************************************************************)
(* State                                                                   *)
(*                                                                         *)
(* gpsData, climateData, analysisResults, loading, error and config are    *)
(* App's useState cells.  runs holds one activation of handleFileSelect    *)
(* per file-upload run, in the order the runs were started:                *)
(*   pc          "parsing"   awaiting parseGPSData / parseGPSDataFromJSON  *)
(*               "fetching"  awaiting callNASAPowerAPI for group k         *)
(*               "delaying"  awaiting the setTimeout after group k         *)
(*               "returned"  fetchClimateData has returned (transient)     *)
(*               "done"      the run has ended without an error            *)
(*               "failed"    the run has ended in the catch branch         *)
(*   file        the File argument                                         *)
(*   surfaceProperties   config.surfaceProperties of the config the        *)
(*               handler's closure holds (all the handler reads of it)     *)
(*   aggregated  aggregatedPoints                                          *)
(*   groups, k, results   groupedPoints, the group of the current          *)
(*               iteration, and the results array of fetchClimateData      *)
(*   timer       ms left on the pending setTimeout                         *)
(* and, as a record of what the run did,                                   *)
(*   stored      the run has called setGpsData                             *)
(*   inflight    provider requests of the run sent and not yet settled     *)
(*   gap         ms since the run's last request settled (up to the delay) *)
(*   requests    one [cluster, request, gap] per request sent              *)
(*   outcomes    one [thrown, data, records] per request settled: whether  *)
(*               callNASAPowerAPI threw, the parameter object it returned  *)
(*               and the records pushed for the group                      *)
(* tz is the host's offset from UTC.                                       *)
(* evaluated is the last call of a ClimateCalculations function made on    *)
(* its own, outside processClimateData: [fn, args, result].                *)
(***************************************************************************)
VARIABLES tz, gpsData, climateData, analysisResults, loading, error, config, runs,
          evaluated

vars == <<tz, gpsData, climateData, analysisResults, loading, error, config, runs,
          evaluated>>

\* No function of ClimateCalculations has been called on its own.
NoEvaluation == [fn |-> "none", args |-> <<>>, result |-> <<>>]

\* error = null
NoError == "null"

inFlight(run) == run.pc \in {"parsing", "fetching", "delaying"}

RunIds == 1..Len(runs)

(***************************************************************************)
(* fetchClimateData, one step at a time                                    *)
(***************************************************************************)
\* const name = value: body applied to the value once computed.
const(value, body(_)) == [name \in {value} |-> body(name)][value]

\* issueRequest as a fan-out: the requests of all remaining groups are sent
\* at once.
issueRequestAll(run, zone) ==
  [run EXCEPT !.k        = @ + 1,
              !.pc       = "fetching",
              !.inflight = @ + (Len(run.groups) - run.k),
              !.requests = @ \o [i \in 1..(Len(run.groups) - run.k) |->
                                  [cluster |-> run.k + i,
                                   request |-> requestOf(run.groups[run.k + i], zone),
                                   gap     |-> run.gap]]]

\* The try block up to the await: the request for the next group is sent.
issueRequest(run, zone) ==
  [run EXCEPT !.k        = @ + 1,
              !.pc       = "fetching",
              !.inflight = @ + 1,
              !.requests = Append(@, [cluster |-> run.k + 1,
                                      request |-> requestOf(run.groups[run.k + 1], zone),
                                      gap     |-> run.gap])]

\* for (const group of groupedPoints): the next iteration, or return results.
fetchNext(run, zone) ==
  IF run.k < Len(run.groups) THEN issueRequest(run, zone)
  ELSE [run EXCEPT !.pc = "returned"]

\* onData with a throw after the group's records were pushed: the catch
\* block adds a mock record for every member and the loop goes on.
onDataThenFallback(run, dayData, zone) ==
  LET group   == run.groups[run.k]
      records == mapGroup(group, dayData, zone)
      mocks   == mockGroup(group, [i \in 1..Len(group) |-> <<4, 4, 4, 4, 4>>], zone)
  IN  fetchNext([run EXCEPT !.results  = @ \o records \o mocks,
                            !.gap      = 0,
                            !.inflight = @ - 1,
                            !.outcomes = Append(@, [thrown |-> TRUE, data |-> NoData,
                                                    records |-> records \o mocks])],
                zone)

\* The rest of the try block once the request has settled without a throw:
\* the group's records are pushed and the delay is started.
onData(run, dayData, zone) ==
  LET records == mapGroup(run.groups[run.k], dayData, zone)
  IN  [run EXCEPT !.results  = @ \o records,
                  !.pc       = "delaying",
                  !.timer    = RateLimitDelay,
                  !.gap      = 0,
                  !.inflight = @ - 1,
                  !.outcomes = Append(@, [thrown |-> FALSE, data |-> dayData,
                                          records |-> records])]

\* onThrow leaving the loop: mock records for the group, then
\* fetchClimateData returns.
onThrowAbort(run, draws, zone) ==
  LET records == mockGroup(run.groups[run.k], draws, zone)
  IN  [run EXCEPT !.results  = @ \o records,
                  !.gap      = 0,
                  !.inflight = @ - 1,
                  !.outcomes = Append(@, [thrown |-> TRUE, data |-> NoData,
                                          records |-> records]),
                  !.pc       = "returned"]

\* onThrow that awaits a promise nothing settles after the mock records.
onThrowStalled(run, draws, zone) ==
  LET records == mockGroup(run.groups[run.k], draws, zone)
  IN  [run EXCEPT !.results  = @ \o records,
                  !.gap      = 0,
                  !.inflight = @ - 1,
                  !.outcomes = Append(@, [thrown |-> TRUE, data |-> NoData,
                                          records |-> records]),
                  !.pc       = "stalled"]

\* The catch block: mock records for the group, then the loop goes on.
onThrow(run, draws, zone) ==
  LET records == mockGroup(run.groups[run.k], draws, zone)
  IN  fetchNext([run EXCEPT !.results  = @ \o records,
                            !.gap      = 0,
                            !.inflight = @ - 1,
                            !.outcomes = Append(@, [thrown |-> TRUE, data |-> NoData,
                                                    records |-> records])],
                zone)

\* The request of group k settles with response.
onResponse(run, response, draws, zone) ==
  LET result == callNASAPowerAPI(response)
  IN  IF result.thrown THEN onThrow(run, draws, zone)
      ELSE onData(run, result.data, zone)

\* The start of fetchClimateData(gpsPoints), up to its first await.
fetchClimateData(run, gpsPoints, zone) ==
  LET loop(groupedPoints) == fetchNext([run EXCEPT !.groups  = groupedPoints,
                                                   !.k       = 0,
                                                   !.results = <<>>],
                                       zone)
  IN  const(groupPointsByProximity(gpsPoints, ProximityThreshold), loop)

(***************************************************************************)
(* handleFileSelect, one step at a time                                    *)
(***************************************************************************)
\* The handler up to its first await: [run, error].
startRun(file, cfg) ==
  LET run == [pc |-> "parsing", file |-> file,
              surfaceProperties |-> cfg.surfaceProperties,
              aggregated |-> <<>>, groups |-> <<>>, k |-> 0, results |-> <<>>,
              timer |-> 0, stored |-> FALSE, inflight |-> 0, gap |-> 0,
              requests |-> <<>>, outcomes |-> <<>>]
  IN  IF file.name \in {"csv", "json"}
      THEN [run |-> run, error |-> NoError]
      ELSE [run   |-> [run EXCEPT !.pc = "failed"],
            error |-> "Unsupported file format. Please use CSV or JSON."]

\* afterParse without the gpsPoints.length === 0 test.
afterParseUnchecked(run, zone) ==
  LET parsed == IF run.file.name = "csv" THEN parseGPSData(run.file)
                ELSE parseGPSDataFromJSON(run.file)
      failed(message) == [run |-> [run EXCEPT !.pc = "failed"], error |-> message]
  IN  IF parsed.rejected THEN failed("Failed to parse the file.")
      ELSE IF aggregateThrows(parsed.gpsPoints) THEN failed("Invalid time value")
      ELSE LET resolve(aggregatedPoints) ==
                 [run   |-> fetchClimateData([run EXCEPT !.aggregated = aggregatedPoints,
                                                         !.stored     = TRUE],
                                             aggregatedPoints, zone),
                  error |-> NoError]
           IN  const(aggregateByDay(parsed.gpsPoints, zone), resolve)

\* From the parser's settling to the first await of fetchClimateData:
\* [run, error], the run "failed" when an error was thrown.
afterParse(run, zone) ==
  LET parsed == IF run.file.name = "csv" THEN parseGPSData(run.file)
                ELSE parseGPSDataFromJSON(run.file)
      failed(message) == [run |-> [run EXCEPT !.pc = "failed"], error |-> message]
  IN  IF parsed.rejected THEN failed("Failed to parse the file.")
      ELSE IF Len(parsed.gpsPoints) = 0
           THEN failed("No valid GPS data found in the file.")
      ELSE IF aggregateThrows(parsed.gpsPoints) THEN failed("Invalid time value")
      ELSE LET resolve(aggregatedPoints) ==
                 [run   |-> fetchClimateData([run EXCEPT !.aggregated = aggregatedPoints,
                                                         !.stored     = TRUE],
                                             aggregatedPoints, zone),
                  error |-> NoError]
           IN  const(aggregateByDay(parsed.gpsPoints, zone), resolve)

(***************************************************************************)
(* Actions                                                                 *)
(***************************************************************************)
\* FileUpload hands a file to onFileSelect: a drop (handleDrop takes the
\* first .csv or .json file, loading or not) or the file input
\* (handleFileChange, any file; the input is rendered only while not
\* loading).  handleFileSelect runs up to its first await.
HandleFileSelect(file, maxRuns) ==
  /\ Len(runs) < maxRuns
  /\ file.name \in {"csv", "json"} \/ ~loading
  /\ LET started == startRun(file, config)
     IN  /\ runs' = Append(runs, started.run)
         /\ loading' = (started.run.pc # "failed")
         /\ error' = started.error
  /\ UNCHANGED <<tz, evaluated, gpsData, climateData, analysisResults, config>>

\* handleFileSelect after fetchClimateData has taken a step: when it has
\* returned, setClimateData, processClimateData with the closure's config,
\* setAnalysisResults and, in finally, setLoading(false).
Continue(r, run) ==
  IF run.pc = "returned"
  THEN /\ climateData' = run.results
       /\ analysisResults' =
            processClimateData(run.results, run.surfaceProperties)
       /\ loading' = FALSE
       /\ runs' = [runs EXCEPT ![r] = [run EXCEPT !.pc = "done"]]
  ELSE /\ runs' = [runs EXCEPT ![r] = run]
       /\ UNCHANGED <<climateData, analysisResults, loading>>

\* ParseSettles with a catch block that also clears what is stored.
ParseSettlesClearing(r) ==
  /\ runs[r].pc = "parsing"
  /\ \E step \in {afterParse(runs[r], tz)} :
         IF step.run.pc = "failed"
         THEN /\ error' = step.error
              /\ loading' = FALSE
              /\ runs' = [runs EXCEPT ![r] = step.run]
              /\ gpsData' = <<>>
              /\ climateData' = <<>>
              /\ analysisResults' = <<>>
         ELSE /\ gpsData' = step.run.aggregated
              /\ Continue(r, step.run)
              /\ UNCHANGED error
  /\ UNCHANGED <<tz, evaluated, config>>

\* The parser of run r settles.
ParseSettles(r) ==
  /\ runs[r].pc = "parsing"
  /\ \E step \in {afterParse(runs[r], tz)} :
         IF step.run.pc = "failed"
         THEN /\ error' = step.error
              /\ loading' = FALSE
              /\ runs' = [runs EXCEPT ![r] = step.run]
              /\ UNCHANGED <<gpsData, climateData, analysisResults>>
         ELSE /\ gpsData' = step.run.aggregated
              /\ Continue(r, step.run)
              /\ UNCHANGED error
  /\ UNCHANGED <<tz, evaluated, config>>

\* The provider request of run r settles.
ProviderResponds(r, rich) ==
  /\ runs[r].pc = "fetching"
  /\ \E response \in Responses(runs[r].requests[Len(runs[r].requests)].request, rich),
        draws \in [1..Len(runs[r].groups[runs[r].k]) -> DrawTuples(rich)] :
       \E run \in {onResponse(runs[r], response, draws, tz)} : Continue(r, run)
  /\ UNCHANGED <<tz, evaluated, gpsData, error, config>>

\* The delay of run r has elapsed.
TimerFires(r) ==
  /\ runs[r].pc = "delaying"
  /\ runs[r].timer = 0
  /\ \E run \in {fetchNext(runs[r], tz)} : Continue(r, run)
  /\ UNCHANGED <<tz, evaluated, gpsData, error, config>>

\* TickMs pass.
Tick ==
  /\ \E r \in RunIds : runs[r].pc = "delaying" /\ runs[r].timer > 0
  /\ runs' = [r \in RunIds |->
                IF runs[r].pc = "delaying"
                THEN [runs[r] EXCEPT !.timer = Max2(0, @ - TickMs),
                                     !.gap   = Min2(RateLimitDelay, @ + TickMs)]
                ELSE runs[r]]
  /\ UNCHANGED <<tz, evaluated, gpsData, climateData, analysisResults, loading, error, config>>

\* handleConfigChange that stores the configuration and re-derives nothing.
handleConfigChangeKeep(newConfig, climate, results) ==
  [config |-> newConfig, analysisResults |-> results]

\* [config, analysisResults] after handleConfigChange(newConfig).
handleConfigChange(newConfig, climate, results) ==
  [config          |-> newConfig,
   analysisResults |-> IF Len(climate) > 0
                       THEN processClimateData(climate, newConfig.surfaceProperties)
                       ELSE results]

\* ConfigurationPanel reports a changed configuration.
HandleConfigChange(newConfig) ==
  /\ newConfig # config
  /\ LET after == handleConfigChange(newConfig, climateData, analysisResults)
     IN  /\ config' = after.config
         /\ analysisResults' = after.analysisResults
  /\ UNCHANGED <<tz, evaluated, gpsData, climateData, loading, error, runs>>

\* ClimateCalculations.assessRisks is called with the given arguments.
AssessRisks(surfaceTemp, emcAverage, emcPeak, cumulativeUV) ==
  /\ evaluated' =
       [fn     |-> "assessRisks",
        args   |-> [surfaceTemp |-> surfaceTemp, emcAverage |-> emcAverage,
                    emcPeak |-> emcPeak, cumulativeUV |-> cumulativeUV],
        result |-> assessRisks(surfaceTemp, emcAverage, emcPeak, cumulativeUV)]
  /\ UNCHANGED <<tz, gpsData, climateData, analysisResults, loading, error,
                 config, runs>>

\* ClimateCalculations.calculateEMC is called with the given arguments.
CalculateEMC(temperature, humidity) ==
  /\ evaluated' =
       [fn     |-> "calculateEMC",
        args   |-> [temperature |-> temperature, humidity |-> humidity],
        result |-> calculateEMC(temperature, humidity)]
  /\ UNCHANGED <<tz, gpsData, climateData, analysisResults, loading, error,
                 config, runs>>

(***************************************************************************)
(* Specifications                                                          *)
(***************************************************************************)
Boot(zones) ==
  /\ tz \in zones
  /\ gpsData = <<>>
  /\ climateData = <<>>
  /\ analysisResults = <<>>
  /\ loading = FALSE
  /\ error = NoError
  /\ config = InitialConfig
  /\ runs = <<>>
  /\ evaluated = NoEvaluation

\* The application on a UTC host: up to MaxRuns uploads, configuration
\* changes at any time.
Init == Boot({0})

Next ==
  \/ \E file \in AppFiles : HandleFileSelect(file, MaxRuns)
  \/ \E r \in RunIds : ParseSettles(r)
  \/ \E r \in RunIds : ProviderResponds(r, FALSE)
  \/ \E r \in RunIds : TimerFires(r)
  \/ Tick
  \/ \E newConfig \in Configs : HandleConfigChange(newConfig)

Spec == Init /\ [][Next]_vars

\* One upload of any generated route, on every host of TZOffsets and with
\* every provider outcome.
InitRoute == Boot(TZOffsets)

NextRoute ==
  \/ \E file \in RouteFiles \cup BadFiles \cup ClockFiles \cup {ScenarioFile} :
       HandleFileSelect(file, 1)
  \/ \E r \in RunIds : ParseSettles(r)
  \/ \E r \in RunIds : ProviderResponds(r, TRUE)
  \/ \E r \in RunIds : TimerFires(r)
  \/ Tick

SpecRoute == InitRoute /\ [][NextRoute]_vars

\* The application with the configuration chosen before the first upload
\* and left alone from then on.
InitLevel ==
  /\ tz = 0
  /\ gpsData = <<>>
  /\ climateData = <<>>
  /\ analysisResults = <<>>
  /\ loading = FALSE
  /\ error = NoError
  /\ config \in Configs
  /\ runs = <<>>
  /\ evaluated = NoEvaluation

NextLevel ==
  \/ \E file \in AppFiles : HandleFileSelect(file, MaxRuns)
  \/ \E r \in RunIds : ParseSettles(r)
  \/ \E r \in RunIds : ProviderResponds(r, FALSE)
  \/ \E r \in RunIds : TimerFires(r)
  \/ Tick

SpecLevel == InitLevel /\ [][NextLevel]_vars

\* The functions of ClimateCalculations called on their own, with every
\* argument of the input sets.
InitPhysics == Boot({0})

NextPhysics ==
  \/ \E surfaceTemp \in SurfaceTemps, emcAverage \in EMCValues,
        emcPeak \in EMCValues, cumulativeUV \in CumulativeUVs :
       AssessRisks(surfaceTemp, emcAverage, emcPeak, cumulativeUV)
  \/ \E temperature \in Temperatures, humidity \in Humidities :
       CalculateEMC(temperature, humidity)

SpecPhysics == InitPhysics /\ [][NextPhysics]_vars

\* One upload on a UTC host under the scheduling of the event loop: a settled parser
\* promise, a settled provider request and an expired timer each have
\* their continuation run, and time passes.
NextFair ==
  \/ \E file \in FairFiles : HandleFileSelect(file, 1)
  \/ \E r \in RunIds : ParseSettles(r)
  \/ \E r \in RunIds : ProviderResponds(r, TRUE)
  \/ \E r \in RunIds : TimerFires(r)
  \/ Tick

Fairness ==
  /\ WF_vars(\E r \in RunIds : ParseSettles(r))
  /\ WF_vars(\E r \in RunIds : ProviderResponds(r, TRUE))
  /\ WF_vars(\E r \in RunIds : TimerFires(r))
  /\ WF_vars(Tick)

SpecFair == Init /\ [][NextFair]_vars /\ Fairness

(***************************************************************************)
(* Properties of the climate resolver (checked under SpecRoute)            *)
(***************************************************************************)
\* The records of a run's results that belong to a point: those with the
\* point's coordinates and the date the resolver files the point under.
recordsOfPoint(run, point) ==
  { j \in 1..Len(run.results) :
      /\ run.results[j].date = dateOf(point, tz)
      /\ run.results[j].latitude = point.latitude
      /\ run.results[j].longitude = point.longitude }

\* The group of a run that holds a point.
groupOfPoint(run, point) ==
  CHOOSE g \in 1..Len(run.groups) :
    \E m \in 1..Len(run.groups[g]) : run.groups[g][m] = point

\* The point's group was answered by the fallback, or the response held a
\* T2M value under the point's date key.
resolved(run, point) ==
  LET outcome == run.outcomes[groupOfPoint(run, point)]
  IN  outcome.thrown \/ present(outcome.data.T2M, dateOf(point, tz))

\* C1 as stated: when fetchClimateData has returned, every input point has
\* exactly one record in the returned list.
C1_ExactlyOneRecordPerPoint ==
  \A r \in RunIds :
    runs[r].pc = "done" =>
      \A i \in 1..Len(runs[r].aggregated) :
        Cardinality(recordsOfPoint(runs[r], runs[r].aggregated[i])) = 1

\* C1 as amended: when fetchClimateData has returned, every input point has
\* at most one record in the returned list; it has exactly one when its
\* group's request failed or the response held a T2M value under the point's
\* date key, and none otherwise; the list holds nothing else.
C1_OneRecordPerResolvedPoint ==
  \A r \in RunIds :
    runs[r].pc = "done" =>
      /\ \A i \in 1..Len(runs[r].aggregated) :
           Cardinality(recordsOfPoint(runs[r], runs[r].aggregated[i]))
             = IF resolved(runs[r], runs[r].aggregated[i]) THEN 1 ELSE 0
      /\ \A j \in 1..Len(runs[r].results) :
           \E i \in 1..Len(runs[r].aggregated) :
             j \in recordsOfPoint(runs[r], runs[r].aggregated[i])

\* A returned resolver call on a successful response that kept one point
\* and dropped another.
C1_Witness ==
  \E r \in RunIds :
    /\ runs[r].pc = "done"
    /\ \E g \in 1..Len(runs[r].groups) :
         /\ ~runs[r].outcomes[g].thrown
         /\ \E m, n \in 1..Len(runs[r].groups[g]) :
              /\ recordsOfPoint(runs[r], runs[r].groups[g][m]) = {}
              /\ recordsOfPoint(runs[r], runs[r].groups[g][n]) # {}

\* The calendar date written in a point's timestamp.
writtenDate(point) == Calendar[point.timestamp.day]

\* C2: a group whose request failed contributes exactly one synthetic record
\* per member, with the member's own date and coordinates, temperature in
\* [20,45], maxTemperature in [25,55], solarRadiation in [100,500], humidity
\* in [30,80] and uvIndex in [1,11].
C2_FailedGroupGetsSyntheticRecords ==
  \A r \in RunIds :
    \A g \in 1..Len(runs[r].outcomes) :
      runs[r].outcomes[g].thrown =>
        LET group   == runs[r].groups[g]
            records == runs[r].outcomes[g].records
        IN  /\ Len(records) = Len(group)
            /\ \A m \in 1..Len(group) :
                 /\ records[m].date = writtenDate(group[m])
                 /\ records[m].latitude = group[m].latitude
                 /\ records[m].longitude = group[m].longitude
                 /\ 200 <= records[m].temperature /\ records[m].temperature <= 450
                 /\ 250 <= records[m].maxTemperature
                 /\ records[m].maxTemperature <= 550
                 /\ 100 <= records[m].solarRadiation
                 /\ records[m].solarRadiation <= 500
                 /\ 30 <= records[m].humidity /\ records[m].humidity <= 80
                 /\ 100 <= records[m].uvIndex /\ records[m].uvIndex <= 1100

\* C3: a failed request never aborts the resolver: once resolution has begun
\* the run does not fail, a returned call has sent a request for every group,
\* and the returned records are, group by group and in order, those of the
\* group's own outcome: the mapping of its own response, or one mock record
\* per member.
C3_FailureDoesNotAbort ==
  \A r \in RunIds :
    /\ runs[r].stored => runs[r].pc # "failed"
    /\ runs[r].pc = "done" =>
         /\ Len(runs[r].requests) = Len(runs[r].groups)
         /\ Len(runs[r].outcomes) = Len(runs[r].groups)
    /\ runs[r].results =
         Concat([g \in 1..Len(runs[r].outcomes) |-> runs[r].outcomes[g].records])
    /\ \A g \in 1..Len(runs[r].outcomes) :
         IF runs[r].outcomes[g].thrown
         THEN Len(runs[r].outcomes[g].records) = Len(runs[r].groups[g])
         ELSE runs[r].outcomes[g].records =
                mapGroup(runs[r].groups[g], runs[r].outcomes[g].data, tz)

\* A returned call whose first request failed and whose second succeeded and
\* yielded a record.
C3_Witness ==
  \E r \in RunIds :
    /\ runs[r].pc = "done"
    /\ Len(runs[r].outcomes) >= 2
    /\ runs[r].outcomes[1].thrown
    /\ ~runs[r].outcomes[2].thrown
    /\ runs[r].outcomes[2].records # <<>>

\* C4: every request after the first of a resolver call is sent at least
\* RateLimitDelay ms after the request before it settled.
C4_DelayBetweenRequests ==
  \A r \in RunIds :
    \A i \in 2..Len(runs[r].requests) :
      runs[r].requests[i].gap >= RateLimitDelay

\* C5: one request per proximity group, in group order and never repeated; a
\* group's request is sent only when every earlier request has settled and
\* its records are in place, so at most one request is outstanding; a
\* returned call has sent exactly as many requests as there are groups.
C5_OneRequestPerGroupInTurn ==
  \A r \in RunIds :
    /\ runs[r].inflight <= 1
    /\ runs[r].inflight = Len(runs[r].requests) - Len(runs[r].outcomes)
    /\ Len(runs[r].requests) <= Len(runs[r].groups)
    /\ \A i \in 1..Len(runs[r].requests) : runs[r].requests[i].cluster = i
    /\ runs[r].pc = "done" => Len(runs[r].requests) = Len(runs[r].groups)

\* A returned call over three points in two groups: two requests, all
\* settled.
C5_Witness ==
  \E r \in RunIds :
    /\ runs[r].pc = "done"
    /\ Len(runs[r].aggregated) = 3
    /\ Len(runs[r].groups) = 2
    /\ Len(runs[r].requests) = 2
    /\ runs[r].inflight = 0

(***************************************************************************)
(* Properties of ingestion (checked under SpecRoute)                       *)
(***************************************************************************)
\* An ingestion error as C10 lists them: an unsupported file type, a parse
\* failure, or no valid sample left after filtering.
ingestionError(file) ==
  \/ file.name \notin {"csv", "json"}
  \/ file.body # "rows"
  \/ SelectSeq(file.rows, validRow) = <<>>

\* C10: a run with an ingestion error stores no aggregation result and sends
\* no provider request; once it has ended it has failed, with an error
\* message shown and loading off.
C10_IngestionErrorIsFatal ==
  \A r \in RunIds :
    ingestionError(runs[r].file) =>
      /\ ~runs[r].stored
      /\ runs[r].aggregated = <<>>
      /\ gpsData = <<>>
      /\ runs[r].requests = <<>>
      /\ runs[r].pc \in {"parsing", "failed"}
      /\ runs[r].pc = "failed" => (error # NoError /\ ~loading)

\* A run that failed because no row of its file was valid.
C10_Witness ==
  \E r \in RunIds :
    /\ runs[r].file.body = "rows"
    /\ runs[r].file.name = "json"
    /\ runs[r].file.rows # <<>>
    /\ runs[r].pc = "failed"
    /\ error = "No valid GPS data found in the file."

(***************************************************************************)
(* Properties of the application (checked under Spec)                      *)
(***************************************************************************)
anyInFlight == \E r \in RunIds : inFlight(runs[r])

\* C6: a step that changes config (handleConfigChange) sends no provider
\* request and changes neither a run nor climateData; with climate records
\* present it replaces analysisResults by the re-derivation of those records
\* under the new surface properties, of the same length as climateData, and
\* with none present it leaves analysisResults as they are.
C6_ReanalysisReusesClimateData ==
  [][config' # config =>
       /\ runs' = runs
       /\ climateData' = climateData
       /\ IF Len(climateData) > 0
          THEN /\ Len(analysisResults') = Len(climateData)
               /\ analysisResults' =
                    processClimateData(climateData, config'.surfaceProperties)
          ELSE analysisResults' = analysisResults]_vars

\* Every run took the wood preset when it was started, no run is in flight,
\* and the results shown are those of the climate records under metal: a
\* re-analysis has replaced them.
C6_Witness ==
  /\ Len(runs) > 0
  /\ ~anyInFlight
  /\ \A r \in RunIds : runs[r].surfaceProperties.materialType = "wood"
  /\ Len(climateData) > 0
  /\ config.surfaceProperties.materialType = "metal"
  /\ analysisResults = processClimateData(climateData, config.surfaceProperties)
  /\ analysisResults # processClimateData(climateData, InitialConfig.surfaceProperties)

\* C7: whenever no run is in flight and climate records exist, the results
\* shown are those of the climate records under the current surface
\* properties.
C7_ResultsFollowSurfaceProperties ==
  (~anyInFlight /\ Len(climateData) > 0) =>
    analysisResults = processClimateData(climateData, config.surfaceProperties)

\* The raw climate records the shown results were derived from.
rawOf(results) == [i \in 1..Len(results) |-> results[i].rawClimateData]

\* C8: when every run has ended and the run started last ended without an
\* error, gpsData, climateData and analysisResults are those of that run.
C8_LatestRunWins ==
  (Len(runs) >= 2 /\ ~anyInFlight /\ runs[Len(runs)].pc = "done") =>
    /\ gpsData = runs[Len(runs)].aggregated
    /\ climateData = runs[Len(runs)].results
    /\ rawOf(analysisResults) = runs[Len(runs)].results

\* C9: while a file-upload run is in flight no other run is started and no
\* configuration change takes effect.
C9_SingleThreadOfControl ==
  [][anyInFlight => (Len(runs') = Len(runs) /\ config' = config)]_vars

(***************************************************************************)
(* Properties of daily aggregation and grouping (checked under SpecRoute)  *)
(***************************************************************************)
\* The samples the parser hands to aggregateByDay.
samplesOf(run) ==
  IF run.file.name = "csv" THEN parseGPSData(run.file).gpsPoints
  ELSE parseGPSDataFromJSON(run.file).gpsPoints

\* The samples of a list whose timestamp is written with calendar date ymd.
samplesOn(samples, ymd) == SelectSeq(samples, LAMBDA p : writtenDate(p) = ymd)

\* C11: the aggregated points of a run are exactly one DailyPoint per
\* distinct calendar date written in the samples' timestamps, none missing
\* and none repeated, each with the arithmetic means of that date's
\* latitudes and longitudes and the timestamp of that date at 12:00:00Z.
C11_OneDailyPointPerDate ==
  \A r \in RunIds :
    runs[r].stored =>
      LET samples == samplesOf(runs[r])
          dates   == { writtenDate(samples[i]) : i \in 1..Len(samples) }
          daily   == runs[r].aggregated
      IN  /\ Len(daily) = Cardinality(dates)
          /\ \A d \in dates :
               \E i \in 1..Len(daily) :
                 /\ daily[i].timestamp = noonZ(d)
                 /\ daily[i].latitude
                      = RatDivInt(RatSum([k \in 1..Len(samplesOn(samples, d)) |->
                                           samplesOn(samples, d)[k].latitude]),
                                  Len(samplesOn(samples, d)))
                 /\ daily[i].longitude
                      = RatDivInt(RatSum([k \in 1..Len(samplesOn(samples, d)) |->
                                           samplesOn(samples, d)[k].longitude]),
                                  Len(samplesOn(samples, d)))

\* Thresholds the grouping is tried with: none, below, at and above the
\* one fetchClimateData passes, and one that holds every point.
Thresholds == {0, ProximityThreshold - 1, ProximityThreshold, ProximityThreshold + 1, 2000}

\* The places <<g, k>> of a list of groups that hold the value v.
placesOf(groups, v) ==
  { gk \in UNION { { <<g, k>> : k \in 1..Len(groups[g]) } : g \in 1..Len(groups) } :
      groups[gk[1]][gk[2]] = v }

\* C12: the groups of a run's aggregated points are a partition of them:
\* every point is in exactly one group at exactly one place, no group is
\* empty and the group sizes sum to the number of points; the same holds of
\* the index groups under every threshold of Thresholds.
C12_GroupsPartitionInput ==
  \A r \in RunIds :
    runs[r].stored =>
      LET points == runs[r].aggregated
      IN  /\ \A i \in 1..Len(points) :
               Cardinality(placesOf(runs[r].groups, points[i])) = 1
          /\ \A g \in 1..Len(runs[r].groups) : runs[r].groups[g] # <<>>
          /\ Len(Concat(runs[r].groups)) = Len(points)
          /\ \A threshold \in Thresholds :
               LET groups == groupIndexesByProximity(points, threshold)
               IN  /\ \A i \in 1..Len(points) :
                        Cardinality(placesOf(groups, i)) = 1
                   /\ \A g \in 1..Len(groups) : groups[g] # <<>>
                   /\ Len(Concat(groups)) = Len(points)

\* Three aggregated points of which the third joined the first's group and
\* was then passed over by the second, although it is nearer than the
\* threshold to the second as well.
C12_Witness ==
  \E r \in RunIds :
    /\ runs[r].stored
    /\ Len(runs[r].aggregated) = 3
    /\ runs[r].groups = << <<runs[r].aggregated[1], runs[r].aggregated[3]>>,
                           <<runs[r].aggregated[2]>> >>
    /\ withinThreshold(runs[r].aggregated[2], runs[r].aggregated[3],
                       ProximityThreshold)

(***************************************************************************)
(* Properties of the response mapping (checked under SpecRoute)            *)
(***************************************************************************)
\* The records among a list that carry a point's coordinates and the date
\* key the resolver computes from the point's own timestamp.
recordsFor(records, point) ==
  { j \in 1..Len(records) :
      /\ records[j].date = dateOf(point, tz)
      /\ records[j].latitude = point.latitude
      /\ records[j].longitude = point.longitude }

\* C13: on a response that did not throw, a member of the group has a
\* record if and only if the response holds a T2M value under the member's
\* own date key; the record's temperature is that value, a member without
\* one has no record of any kind, and the resolver never holds more records
\* than it was given points.
C13_RecordIffPrimaryPresent ==
  \A r \in RunIds :
    /\ Len(runs[r].results) <= Len(runs[r].aggregated)
    /\ \A g \in 1..Len(runs[r].outcomes) :
         ~runs[r].outcomes[g].thrown =>
           LET group   == runs[r].groups[g]
               t2m     == runs[r].outcomes[g].data.T2M
               records == runs[r].outcomes[g].records
               kept    == { m \in 1..Len(group) : dateOf(group[m], tz) \in DOMAIN t2m }
           IN  /\ Len(records) = Cardinality(kept)
               /\ \A m \in 1..Len(group) :
                    (recordsFor(records, group[m]) # {}) <=> (m \in kept)
               /\ \A m \in kept : \A j \in recordsFor(records, group[m]) :
                    records[j].temperature = t2m[dateOf(group[m], tz)]

\* A returned call whose only response held no T2M value at all: several
\* points went in and no record came out.
C13_Witness ==
  \E r \in RunIds :
    /\ runs[r].pc = "done"
    /\ Len(runs[r].aggregated) >= 2
    /\ Len(runs[r].outcomes) = 1
    /\ ~runs[r].outcomes[1].thrown
    /\ DOMAIN runs[r].outcomes[1].data.T2M = {}
    /\ runs[r].results = <<>>

(***************************************************************************)
(* Properties of ClimateCalculations.processClimateData (SpecRoute)        *)
(***************************************************************************)
\* C14: the results shown are one per climate record and in the records'
\* order: result i carries record i's date, latitude and longitude, holds
\* record i as rawClimateData, and is what processClimateData makes of
\* record i alone; the same holds of processClimateData on the stored
\* records under every material preset.
C14_DeriveAllIsPointwise ==
  /\ Len(analysisResults) = Len(climateData)
  /\ \A i \in 1..Len(climateData) :
       /\ analysisResults[i].rawClimateData = climateData[i]
       /\ analysisResults[i].date = climateData[i].date
       /\ analysisResults[i].latitude = climateData[i].latitude
       /\ analysisResults[i].longitude = climateData[i].longitude
       /\ analysisResults[i]
            = processClimateData(<<climateData[i]>>, config.surfaceProperties)[1]
  /\ \A properties \in Materials :
       LET all == processClimateData(climateData, properties)
       IN  /\ Len(all) = Len(climateData)
           /\ \A i \in 1..Len(climateData) :
                all[i] = processClimateData(<<climateData[i]>>, properties)[1]

\* Results of three records that differ in date, place and temperature.
C14_Witness ==
  /\ Len(analysisResults) = 3
  /\ \A i, j \in 1..3 :
       i # j => /\ climateData[i].date # climateData[j].date
                /\ climateData[i].latitude # climateData[j].latitude
                /\ analysisResults[i].surfaceTemperature
                     # analysisResults[j].surfaceTemperature
  /\ analysisResults[1].cumulativeUV > 0

(***************************************************************************)
(* Properties of ClimateCalculations.assessRisks and calculateEMC          *)
(* (checked under SpecPhysics)                                             *)
(***************************************************************************)
\* The cracking risk assessRisks returned when called with surface
\* temperature t, if that is the call last made.
crackingRiskAt(t, risk) ==
  (evaluated.fn = "assessRisks" /\ evaluated.args.surfaceTemp = t)
    => evaluated.result.crackingRisk = risk

\* C15 as stated: a surface temperature of 40.0 is classed Medium, 60.0
\* High and 39.999 Low.
C15_BoundaryCases ==
  /\ crackingRiskAt(Fix(40, 0), "Medium")
  /\ crackingRiskAt(Fix(60, 0), "High")
  /\ crackingRiskAt(Fix(39, 999), "Low")

\* C15 as amended: a surface temperature of 40.0 is classed Low and 60.0
\* Medium, as 39.999 is Low and 59.999 Medium; the class rises only above
\* the limit: 40.001 is Medium and 60.001 High.
C15_BoundaryCasesExclusive ==
  /\ crackingRiskAt(Fix(39, 999), "Low")
  /\ crackingRiskAt(Fix(40, 0), "Low")
  /\ crackingRiskAt(Fix(40, 1), "Medium")
  /\ crackingRiskAt(Fix(59, 999), "Medium")
  /\ crackingRiskAt(Fix(60, 0), "Medium")
  /\ crackingRiskAt(Fix(60, 1), "High")

\* assessRisks was called at exactly 60.0 and answered Medium.
C15_Witness ==
  /\ evaluated.fn = "assessRisks"
  /\ evaluated.args.surfaceTemp = Fix(60, 0)
  /\ evaluated.result.crackingRisk = "Medium"

\* 1 + cumulativeUV / 100 + (surfaceTemp - 20) * 0.05 of the call last
\* made, in units of 0.00001.
agingExpression ==
  100000 + evaluated.args.cumulativeUV
    + 5 * (evaluated.args.surfaceTemp.w * 1000 + evaluated.args.surfaceTemp.m - 20000)

\* The aging rate of the call last made, in thousandths.
agingRateReturned ==
  evaluated.result.agingRate.w * 1000 + evaluated.result.agingRate.m

\* C16: the aging rate assessRisks returns is at least 1, whatever the
\* signs of surfaceTemp and cumulativeUV, and is the value of
\* 1 + cumulativeUV / 100 + (surfaceTemp - 20) * 0.05 (to the thousandth)
\* whenever that is at least 1.
C16_AgingRateAtLeastOne ==
  evaluated.fn = "assessRisks" =>
    /\ agingRateReturned >= 1000
    /\ agingExpression >= 100000 => agingRateReturned = agingExpression \div 100

\* A call with a negative surface temperature and a negative cumulative UV,
\* whose expression is below zero, answered with an aging rate of 1.
C16_Witness ==
  /\ evaluated.fn = "assessRisks"
  /\ evaluated.args.surfaceTemp.w < 0
  /\ evaluated.args.cumulativeUV < 0
  /\ agingExpression < 0
  /\ agingRateReturned = 1000

\* C17 as stated: the EMC average does not fall as the humidity rises up to
\* 95, is the same for every humidity above 95, and does not depend on the
\* temperature.
C17_EMCNonDecreasing ==
  evaluated.fn = "calculateEMC" =>
    \A temperature \in Temperatures, humidity \in Humidities :
      LET other == calculateEMC(temperature, humidity).average
      IN  /\ (evaluated.args.humidity <= humidity /\ humidity <= 95)
               => evaluated.result.average <= other
          /\ (evaluated.args.humidity > 95 /\ humidity > 95)
               => evaluated.result.average = other
          /\ evaluated.args.humidity = humidity
               => evaluated.result.average = other

\* C17 as amended: the EMC average does not rise as the humidity rises from
\* 0 up to 95, is the same for every humidity above 95, and does not depend
\* on the temperature.
C17_EMCNonIncreasing ==
  evaluated.fn = "calculateEMC" =>
    \A temperature \in Temperatures, humidity \in Humidities :
      LET other == calculateEMC(temperature, humidity).average
      IN  /\ (evaluated.args.humidity <= humidity /\ humidity <= 95)
               => evaluated.result.average >= other
          /\ (evaluated.args.humidity > 95 /\ humidity > 95)
               => evaluated.result.average = other
          /\ evaluated.args.humidity = humidity
               => evaluated.result.average = other

\* calculateEMC was called with a humidity above 95 and returned the average
\* of humidity 95, which is below that of humidity 0.
C17_Witness ==
  /\ evaluated.fn = "calculateEMC"
  /\ evaluated.args.humidity > 95
  /\ evaluated.result.average = calculateEMC(200, 95).average
  /\ evaluated.result.average < calculateEMC(200, 0).average

(***************************************************************************)
(* The end-to-end scenario (checked under SpecRoute)                       *)
(***************************************************************************)
\* Run r is the scenario: the three samples of ScenarioFile, wood, and a
\* response that gave the one daily point T2M = 25, RH2M = 60 and
\* ALLSKY_SFC_SW_DWN = 300; the run has ended and its results are shown.
scenarioDone(r) ==
  /\ runs[r].file = ScenarioFile
  /\ runs[r].pc = "done"
  /\ runs[r].surfaceProperties = [materialType |-> "wood", albedo |-> 25,
                                  emissivity |-> 90]
  /\ Len(runs[r].outcomes) = 1
  /\ ~runs[r].outcomes[1].thrown
  /\ Len(runs[r].results) = 1
  /\ runs[r].results[1].temperature = 250
  /\ runs[r].results[1].humidity = 60
  /\ runs[r].results[1].solarRadiation = 300

C19_UnimplementedLevelIsFlagged ==
  config.aggregationLevel # "daily" =>
    \A r \in RunIds : runs[r].stored => error # NoError

(***************************************************************************)
(* Seeded grouping (checked under SpecRoute)                               *)
(***************************************************************************)
\* The groups of a run as indexes into its aggregated points (which differ
\* in their dates, so that a point names its index).
indexGroups(run) ==
  [g \in 1..Len(run.groups) |->
     [k \in 1..Len(run.groups[g]) |->
        CHOOSE i \in 1..Len(run.aggregated) : run.aggregated[i] = run.groups[g][k]]]

\* The indexes held by the groups before group g.
assignedBefore(groups, g) ==
  UNION { { groups[h][k] : k \in 1..Len(groups[h]) } : h \in 1..(g - 1) }

\* The square of the distance of two points, and of the threshold.
distanceSq(p, q) ==
  calculateDistanceSq(p.latitude, p.longitude, q.latitude, q.longitude)

thresholdSq == RatInt(ProximityThreshold * ProximityThreshold)

\* The groups of run r are seeded groups under the test near(seed, point):
\* the seed of each group is the first point no earlier group holds, and a
\* later point no earlier group holds is in the group exactly if it is near
\* the seed.
seededBy(r, near(_, _)) ==
  LET points == runs[r].aggregated
      groups == indexGroups(runs[r])
  IN  \A g \in 1..Len(groups) :
        LET free == (1..Len(points)) \ assignedBefore(groups, g)
            seed == groups[g][1]
        IN  /\ seed \in free
            /\ \A i \in free : seed <= i
            /\ \A j \in free :
                 j > seed =>
                   ((\E k \in 2..Len(groups[g]) : groups[g][k] = j)
                      <=> near(points[seed], points[j]))

\* C20 as stated: the groups are seeded groups in which a point joins the
\* seed's group exactly if its distance to the seed is at most the
\* threshold.
C20_SeededWithinAtMost ==
  \A r \in RunIds :
    runs[r].stored =>
      seededBy(r, LAMBDA p, q : RatLeq(distanceSq(p, q), thresholdSq))

\* C20 as amended: the groups are seeded groups in which a point joins the
\* seed's group exactly if its distance to the seed is less than the
\* threshold, whatever its distance to the other members; so every member
\* that is not the seed is nearer than the threshold to the group's first.
C20_SeededWithinLessThan ==
  \A r \in RunIds :
    runs[r].stored =>
      /\ seededBy(r, LAMBDA p, q : RatLess(distanceSq(p, q), thresholdSq))
      /\ \A g \in 1..Len(runs[r].groups) : \A k \in 2..Len(runs[r].groups[g]) :
           RatLess(distanceSq(runs[r].groups[g][1], runs[r].groups[g][k]),
                   thresholdSq)

\* Three points: the second joined the first; the third, exactly the
\* threshold away from the first and nearer than that to the second, did
\* not.
C20_Witness ==
  \E r \in RunIds :
    /\ runs[r].stored
    /\ Len(runs[r].aggregated) = 3
    /\ runs[r].groups = << <<runs[r].aggregated[1], runs[r].aggregated[2]>>,
                           <<runs[r].aggregated[3]>> >>
    /\ distanceSq(runs[r].aggregated[1], runs[r].aggregated[3]) = thresholdSq
    /\ RatLess(distanceSq(runs[r].aggregated[2], runs[r].aggregated[3]),
               thresholdSq)

(***************************************************************************)
(* The mapping of a response to records (checked under SpecRoute)          *)
(***************************************************************************)
\* The members of group g of a run that the response gave a record, in the
\* order of the group: those with a T2M value under the key the resolver
\* looks them up by.
keptMembers(run, g) ==
  SelectSeq(run.groups[g],
            LAMBDA p : present(run.outcomes[g].data.T2M, dateOf(p, tz)))

\* C21: on a response that did not throw, the records of a group are those
\* of its kept members in order, each with its own point's latitude,
\* longitude and date, and with the temperature the response holds under
\* that point's own date.
C21_RecordsKeepOwnPoint ==
  \A r \in RunIds :
    \A g \in 1..Len(runs[r].outcomes) :
      ~runs[r].outcomes[g].thrown =>
        LET kept    == keptMembers(runs[r], g)
            records == runs[r].outcomes[g].records
            t2m     == runs[r].outcomes[g].data.T2M
        IN  /\ Len(records) = Len(kept)
            /\ \A k \in 1..Len(kept) :
                 /\ records[k].latitude = kept[k].latitude
                 /\ records[k].longitude = kept[k].longitude
                 /\ records[k].date = writtenDate(kept[k])
                 /\ present(t2m, writtenDate(kept[k]))
                 /\ records[k].temperature = t2m[writtenDate(kept[k])]

\* The value a parameter map holds under key, or the default when the map
\* holds none.
valueOrDefault(m, key, default) == IF present(m, key) THEN m[key] ELSE default

\* C22: on a response that did not throw, the record of a kept member takes
\* each secondary parameter from the response when the response holds a
\* value under the member's date key, the value 0 included, and the default
\* (temperature + 5, 200, 50) only when it holds none.
C22_DefaultsOnlyWhenAbsent ==
  \A r \in RunIds :
    \A g \in 1..Len(runs[r].outcomes) :
      ~runs[r].outcomes[g].thrown =>
        LET kept    == keptMembers(runs[r], g)
            records == runs[r].outcomes[g].records
            data    == runs[r].outcomes[g].data
        IN  \A k \in 1..Len(kept) :
              LET key == dateOf(kept[k], tz)
              IN  /\ records[k].temperature = data.T2M[key]
                  /\ records[k].maxTemperature
                       = valueOrDefault(data.T2M_MAX, key, data.T2M[key] + 50)
                  /\ records[k].solarRadiation
                       = valueOrDefault(data.ALLSKY_SFC_SW_DWN, key, 200)
                  /\ records[k].humidity = valueOrDefault(data.RH2M, key, 50)

(***************************************************************************)
(* The provider request (checked under SpecRoute)                          *)
(***************************************************************************)
\* A coordinate of a request, in units of 0.0001 degree, is the rational r,
\* in units of 0.01 degree, rounded to four decimal places.
roundedTo4(coordinate, r) ==
  2 * Abs(coordinate * r.d - 100 * r.n) <= r.d

\* C23: every request of a run is made at the centroid of its group (to
\* the four decimal places of the query) with the range [start, end], start
\* the least and end the greatest date key of the group's members: start is
\* at most end, every member's date key lies in the range, and a group of
\* one member has start = end.
C23_RequestAtCentroidOverDateRange ==
  \A r \in RunIds :
    \A i \in 1..Len(runs[r].requests) :
      LET group   == runs[r].groups[runs[r].requests[i].cluster]
          request == runs[r].requests[i].request
          keys    == { dateOf(group[m], tz) : m \in 1..Len(group) }
          lats    == [m \in 1..Len(group) |-> group[m].latitude]
          lons    == [m \in 1..Len(group) |-> group[m].longitude]
      IN  /\ roundedTo4(request.latitude, RatDivInt(RatSum(lats), Len(group)))
          /\ roundedTo4(request.longitude, RatDivInt(RatSum(lons), Len(group)))
          /\ request.start \in keys
          /\ request.end \in keys
          /\ \A key \in keys : request.start <= key /\ key <= request.end
          /\ request.start <= request.end
          /\ Len(group) = 1 => request.start = request.end

\* A request for a group of two members of different dates and places: the
\* range spans both dates and the place is neither member's.
C23_Witness ==
  \E r \in RunIds :
    \E i \in 1..Len(runs[r].requests) :
      LET group   == runs[r].groups[runs[r].requests[i].cluster]
          request == runs[r].requests[i].request
      IN  /\ Len(group) = 2
          /\ request.start < request.end
          /\ request.start = dateOf(group[1], tz)
          /\ request.end = dateOf(group[2], tz)
          /\ ~roundedTo4(request.latitude, group[1].latitude)
          /\ ~roundedTo4(request.latitude, group[2].latitude)

(***************************************************************************)
(* The calendar date through aggregation and resolution (SpecRoute)        *)
(***************************************************************************)
\* C24: on every host, the samples of a run are grouped under the dates
\* written in their own timestamps; a daily point of date D is queried with
\* D inside the requested range and filed under the date key D; and every
\* record of a group carries the date and place of one of its members.
C24_DateSurvivesRoundTrip ==
  \A r \in RunIds :
    runs[r].stored =>
      LET samples == samplesOf(runs[r])
          daily   == runs[r].aggregated
      IN  /\ { daily[i].timestamp : i \in 1..Len(daily) }
               = { noonZ(writtenDate(samples[i])) : i \in 1..Len(samples) }
          /\ \A i \in 1..Len(daily) : dateOf(daily[i], tz) = writtenDate(daily[i])
          /\ \A i \in 1..Len(runs[r].requests) :
               LET group   == runs[r].groups[runs[r].requests[i].cluster]
                   request == runs[r].requests[i].request
               IN  \A m \in 1..Len(group) :
                     /\ request.start <= writtenDate(group[m])
                     /\ writtenDate(group[m]) <= request.end
          /\ \A g \in 1..Len(runs[r].outcomes) :
               \A j \in 1..Len(runs[r].outcomes[g].records) :
                 \E m \in 1..Len(runs[r].groups[g]) :
                   /\ runs[r].outcomes[g].records[j].date
                        = writtenDate(runs[r].groups[g][m])
                   /\ runs[r].outcomes[g].records[j].latitude
                        = runs[r].groups[g][m].latitude
                   /\ runs[r].outcomes[g].records[j].longitude
                        = runs[r].groups[g][m].longitude

(***************************************************************************)
(* One record per point at most (checked under SpecRoute)                  *)
(***************************************************************************)
\* C25: whatever the provider outcomes, a point has at most one record in
\* the resolver's results; a group never yields more records than it has
\* members, and the records of a group whose request threw are the mock
\* records alone, one per member: the catch branch is not entered once
\* records of the group have been pushed.
C25_AtMostOneRecordPerPoint ==
  \A r \in RunIds :
    /\ \A i \in 1..Len(runs[r].aggregated) :
         Cardinality(recordsOfPoint(runs[r], runs[r].aggregated[i])) <= 1
    /\ \A g \in 1..Len(runs[r].outcomes) :
         LET group   == runs[r].groups[g]
             records == runs[r].outcomes[g].records
         IN  /\ Len(records) <= Len(group)
             /\ \A m \in 1..Len(group) :
                  Cardinality(recordsFor(records, group[m])) <= 1
             /\ runs[r].outcomes[g].thrown =>
                  /\ Len(records) = Len(group)
                  /\ \A m \in 1..Len(group) :
                       Cardinality(recordsFor(records, group[m])) = 1

\* A returned call over three points: one has a record from the response,
\* one of the same group has none, and the third, whose request failed, has
\* a mock record.
C25_Witness ==
  \E r \in RunIds :
    /\ runs[r].pc = "done"
    /\ Len(runs[r].aggregated) = 3
    /\ Len(runs[r].outcomes) = 2
    /\ \E g, h \in 1..2 :
         /\ ~runs[r].outcomes[g].thrown
         /\ Len(runs[r].groups[g]) = 2
         /\ Len(runs[r].outcomes[g].records) = 1
         /\ runs[r].outcomes[h].thrown
         /\ Len(runs[r].outcomes[h].records) = 1
    /\ Len(runs[r].results) = 2

(***************************************************************************)
(* A failed upload and what is stored (checked under Spec)                 *)
(***************************************************************************)
\* C26: every step taken by a run that fails at ingestion (its start, and
\* the step in which it fails) leaves gpsData, climateData, analysisResults
\* and config as they were; the failing step sets the error message and
\* turns loading off.
C26_FailedRunKeepsStoredData ==
  [][\A r \in 1..Len(runs') :
       (/\ ingestionError(runs'[r].file) \/ runs'[r].pc = "failed"
        /\ r > Len(runs) \/ runs[r] # runs'[r])
       => /\ UNCHANGED <<gpsData, climateData, analysisResults, config>>
          /\ runs'[r].pc = "failed" => (error' # NoError /\ ~loading')]_vars

\* An upload has failed after an earlier one succeeded, and the earlier
\* run's records and results are still stored.
C26_Witness ==
  \E q, r \in RunIds :
    /\ q < r
    /\ runs[q].pc = "done"
    /\ runs[r].pc = "failed"
    /\ error # NoError
    /\ ~loading
    /\ gpsData = runs[q].aggregated
    /\ climateData = runs[q].results
    /\ climateData # <<>>
    /\ analysisResults # <<>>

(***************************************************************************)
(* Termination of an upload (checked under SpecFair)                       *)
(***************************************************************************)
\* C27: a run never sends more requests than it has groups, and one that
\* has ended without an error has sent exactly one per group; every run
\* that is in flight eventually ends, as done or as failed, in a state with
\* loading off.
C27_EveryRunTerminates ==
  /\ [](\A r \in RunIds :
         /\ Len(runs[r].requests) <= Len(runs[r].groups)
         /\ runs[r].pc = "done" =>
              /\ Len(runs[r].requests) = Len(runs[r].groups)
              /\ Len(runs[r].outcomes) = Len(runs[r].groups))
  /\ \A i \in 1..MaxRuns :
       (i \in RunIds /\ inFlight(runs[i]))
         ~> (i \in RunIds /\ runs[i].pc \in {"done", "failed"} /\ ~loading)

\* A run over more than one group has ended with every group's request
\* failed and mock records in their place.
C27_Witness ==
  \E r \in RunIds :
    /\ runs[r].pc = "done"
    /\ ~loading
    /\ Len(runs[r].groups) > 1
    /\ Len(runs[r].requests) = Len(runs[r].groups)
    /\ \A g \in 1..Len(runs[r].outcomes) : runs[r].outcomes[g].thrown
    /\ climateData = runs[r].results
    /\ Len(climateData) = Len(runs[r].aggregated)

====
